---- MODULE Spec2Model ----
(***************************************************************************)
(* Model of package logging (src/logger.go): the Logger's dispatch         *)
(* pipeline Logger.log and its five public operations.                     *)
(*                                                                         *)
(* A log call is modelled at the granularity of its accesses to the shared *)
(* field Logger.Record: the entry (level gate and Record construction),    *)
(* the Logger-level Filter, and for each handler its gate (level and       *)
(* Filter) and its write (Formatter.GetMessage and Write).  Each goroutine *)
(* that calls the Logger has a position pc[t] in Logger.log.  Spec has one *)
(* caller (sequential use); SpecConc has two callers sharing one Logger.   *)
(*                                                                         *)
(* trace[t] is the history of goroutine t's calls (calls, Records built,   *)
(* Filter evaluations, writes received by handlers, returns), in the order *)
(* they happened; the program does not read it except through OthersBuilt, *)
(* which gives the Records another goroutine has stored in Logger.Record.  *)
(***************************************************************************)
EXTENDS Integers, Sequences, FiniteSets

VARIABLES logger, ctor, Record, pc, frame, trace

vars == <<logger, ctor, Record, pc, frame, trace>>

(* ------------------------------ bounds --------------------------------- *)

\* Number of log calls the single caller of Spec makes in one behaviour.
MaxCalls == 2

\* Number of log calls each of the two callers of SpecConc makes.
MaxConcCalls == 1

(* ------------------------------ constants ------------------------------ *)

NOTSET == 0
DEBUG == 10
INFO == 20
WARNING == 30
ERROR == 40
CRITICAL == 50

Levels == {DEBUG, INFO, WARNING, ERROR, CRITICAL}

\* A nil pointer / nil func value.
Nil == "nil"

\* Format strings (with their arguments applied) passed by the caller.
Msgs == {"msg"}

\* Goroutines calling the same Logger.
SeqCallers == {1}
ConcCallers == {1, 2}

(* ------------------------------ filters -------------------------------- *)

\* MessageFilter values a Logger or handler may carry: nil, or a predicate
\* over the Logger, which sees the Logger's current Record.
FilterDeny == "deny"
FilterSevere == "severe"

\* The result of calling the (non-nil) filter f on a Logger whose Record is r.
FilterAllows(f, r) ==
    CASE f = FilterDeny -> FALSE
      [] f = FilterSevere -> r.Level >= ERROR
      [] OTHER -> TRUE

(* ------------------------------ formatter ------------------------------ *)

DefaultFormat == "default"

\* MessageFormatter.GetMessage(l): the rendering of the Logger's Record r by
\* formatter f.  An absent formatter passes the message text through.
GetMessage(f, r) ==
    IF f = Nil
    THEN [fmt |-> Nil, level |-> NOTSET, text |-> r.Message]
    ELSE [fmt |-> f, level |-> r.Level, text |-> r.Message]

\* No bytes: the out field of the events that are not writes.
NoBytes == [fmt |-> Nil, level |-> NOTSET, text |-> Nil]

\* Handler.Write(bytes): a write either succeeds or fails; the failure is
\* reported to the caller as a returned error.
WriteOutcomes == {TRUE, FALSE}

(* ------------------------------ record --------------------------------- *)

\* GetMessageRecord(level, format, a...): a fresh Record.  id stands for the
\* identity of the allocated Record (its address, its timestamp): the
\* goroutine and the number of the call that built it.
GetMessageRecord(lvl, msg, id) == [id |-> id, Level |-> lvl, Message |-> msg]

\* The nil *MessageRecord: Logger.Record before any Record is built.
NilRecord == [id |-> <<0, 0>>, Level |-> NOTSET, Message |-> Nil]

(* ------------------------------ logger --------------------------------- *)

\* The thresholds, Filters and Formatters the Loggers of the model are
\* configured with.
LoggerLevels == {DEBUG, INFO}
HandlerLevels == {DEBUG, WARNING}
LoggerFilters == {Nil, FilterSevere}
StreamFilters == {Nil, FilterDeny}
FileFilters == {Nil, FilterSevere}
StreamFormatters == {Nil, DefaultFormat}
FileFormatters == {DefaultFormat}

\* The nil *StreamMessageHandler / *FileMessageHandler.
NilHandler == [Level |-> NOTSET, Filter |-> Nil, Formatter |-> Nil, Destination |-> Nil]

HandlerConfigs(filters, formatters, dest) ==
    {NilHandler} \cup
    [Level : HandlerLevels, Filter : filters, Formatter : formatters, Destination : {dest}]

\* The Logger struct, without its Record field (the variable Record).
LoggerConfigs ==
    [Level : LoggerLevels, Filter : LoggerFilters,
     StreamHandler : HandlerConfigs(StreamFilters, StreamFormatters, "os.Stdout"),
     FileHandler : HandlerConfigs(FileFilters, FileFormatters, "file")]

\* The Loggers that two goroutines share in SpecConc.
ConcLoggerConfigs ==
    {l \in LoggerConfigs :
        /\ l.StreamHandler # NilHandler
        /\ l.StreamHandler.Filter = Nil
        /\ l.StreamHandler.Formatter = DefaultFormat
        /\ l.FileHandler # NilHandler
        /\ l.FileHandler.Level = DEBUG
        /\ l.FileHandler.Filter = FilterSevere}

\* Variant: the default Logger built with threshold INFO.
GetDefaultLoggerAtInfo ==
    [Level |-> INFO,
     Filter |-> Nil,
     StreamHandler |-> [Level |-> DEBUG, Filter |-> Nil, Formatter |-> DefaultFormat,
                        Destination |-> "os.Stdout"],
     FileHandler |-> NilHandler]

GetDefaultLogger ==
    [Level |-> DEBUG,
     Filter |-> Nil,
     StreamHandler |-> [Level |-> DEBUG, Filter |-> Nil, Formatter |-> DefaultFormat,
                        Destination |-> "os.Stdout"],
     FileHandler |-> NilHandler]

\* The handler field of the Logger that h names.
HandlerOf(h) == IF h = "stream" THEN logger.StreamHandler ELSE logger.FileHandler

\* Variant: the File handler is dispatched to first.
HandlerOrderFileFirst == <<"file", "stream">>

\* The handlers in the order Logger.log dispatches to them.
HandlerOrder == <<"stream", "file">>

PcOf(i) == IF i > Len(HandlerOrder) THEN "idle" ELSE HandlerOrder[i]

IndexOf(h) == CHOOSE i \in 1..Len(HandlerOrder) : HandlerOrder[i] = h

\* The position of Logger.log at handler h's Write.
WritePc(h) == IF h = "stream" THEN "streamWrite" ELSE "fileWrite"

\* Where Logger.log goes after it is done with handler h.
After(h) == PcOf(IndexOf(h) + 1)

\* Variant: Logger.log returns when a Write fails.
AfterWriteAbort(h, ok) == IF ok THEN After(h) ELSE "idle"

\* Where Logger.log goes after handler h's Write returned ok: the returned
\* error is discarded.
AfterWrite(h, ok) == After(h)

\* Variants of the level comparison: reversed, dropped, strict.
LevelPassReversed(lvl, min) == lvl <= min
LevelPassAlways(lvl, min) == TRUE
LevelPassStrict(lvl, min) == lvl > min

\* level >= l.Level, level >= l.StreamHandler.Level, level >= l.FileHandler.Level
LevelPass(lvl, min) == lvl >= min

\* Variants of the Filter check: the Filter's result ignored; a nil Filter
\* taken as a refusal.
FilterPassIgnored(f, r) == TRUE
FilterPassNilDenies(f, r) == f # Nil /\ FilterAllows(f, r)

\* f == nil || (f != nil && f(l)), on a Logger whose Record reads as r.
FilterPass(f, r) == f = Nil \/ (f # Nil /\ FilterAllows(f, r))

\* Variant: a Record once built is kept.
StoreRecordKeepFirst(old, new) == IF old.id = <<0, 0>> THEN new ELSE old

\* l.Record = GetMessageRecord(...): the new Record replaces the old one.
StoreRecord(old, new) == new

(* ------------------------------ history -------------------------------- *)

\* One event of the history: kind k ("call", "build", "filter", "write",
\* "ret"), the call c (goroutine t's n-th is <<t, n>>), the call's level L
\* and message m, the handler or
\* "logger" h concerned, the Record read or built, the Filter's or Write's
\* result ok, and the bytes handed to Write.
Ev(k, t, h, r, ok, out) ==
    [k |-> k, c |-> <<t, frame[t].call>>, L |-> frame[t].level, m |-> frame[t].msg,
     h |-> h, rec |-> r, ok |-> ok, out |-> out]

\* The Records other goroutines have stored in Logger.Record so far.
OthersBuilt(t) ==
    UNION {{trace[u][i].rec : i \in {j \in 1..Len(trace[u]) : trace[u][j].k = "build"}} :
           u \in DOMAIN trace \ {t}}

\* Variant: the Record is a value local to the call.
ReadableLocalOnly(t) == {frame[t].own}

\* What a read of l.Record by goroutine t, after its own store, may return:
\* its own store, or (unsynchronized) a store of another goroutine.
Readable(t) == {frame[t].own} \cup OthersBuilt(t)

\* The events a step of goroutine t adds when it moves to position p.
Goto(t, p, evs) ==
    /\ pc' = [pc EXCEPT ![t] = p]
    /\ trace' = [trace EXCEPT ![t] = @ \o evs \o
                  (IF p = "idle" THEN <<Ev("ret", t, Nil, NilRecord, TRUE, NoBytes)>> ELSE <<>>)]

\* The number of calls a goroutine makes in one behaviour.
CallBudget == IF DOMAIN pc = SeqCallers THEN MaxCalls ELSE MaxConcCalls

(* ------------------------------ Logger.log ----------------------------- *)

\* Entry of log(level, format, a...): the Logger's level gate and the
\* construction of the Record.
log(t, lvl, msg) ==
    /\ pc[t] = "idle"
    /\ frame[t].call < CallBudget
    /\ UNCHANGED <<logger, ctor>>
    /\ LET n == frame[t].call + 1
           c == <<t, n>>
           start == [k |-> "call", c |-> c, L |-> lvl, m |-> msg,
                     h |-> Nil, rec |-> NilRecord, ok |-> TRUE, out |-> NoBytes]
       IN  \/ /\ ~LevelPass(lvl, logger.Level)
              /\ trace' = [trace EXCEPT ![t] = @ \o <<start, [start EXCEPT !.k = "ret"]>>]
              /\ frame' = [frame EXCEPT ![t].call = n]
              /\ UNCHANGED <<Record, pc>>
           \/ /\ LevelPass(lvl, logger.Level)
              /\ LET r == StoreRecord(Record, GetMessageRecord(lvl, msg, c))
                 IN  /\ Record' = r
                     /\ frame' = [frame EXCEPT ![t] = [call |-> n, level |-> lvl, msg |-> msg, own |-> r]]
                     /\ trace' = [trace EXCEPT ![t] =
                                     @ \o <<start, [start EXCEPT !.k = "build", !.rec = r]>>]
              /\ pc' = [pc EXCEPT ![t] = "filter"]

\* if l.Filter == nil || (l.Filter != nil && l.Filter(l))
logFilter(t) ==
    /\ pc[t] = "filter"
    /\ UNCHANGED <<logger, ctor, Record, frame>>
    /\ \/ /\ logger.Filter = Nil
          /\ Goto(t, IF FilterPass(Nil, frame[t].own) THEN PcOf(1) ELSE "idle", <<>>)
       \/ /\ logger.Filter # Nil
          /\ \E r \in Readable(t) :
               Goto(t, IF FilterPass(logger.Filter, r) THEN PcOf(1) ELSE "idle",
                    <<Ev("filter", t, "logger", r, FilterAllows(logger.Filter, r), NoBytes)>>)

\* if H != nil && level >= H.Level { if H.Filter == nil || H.Filter(l) {
Gate(t, h) ==
    /\ pc[t] = h
    /\ UNCHANGED <<logger, ctor, Record, frame>>
    /\ LET H == HandlerOf(h)
       IN  \/ /\ H = NilHandler
              /\ Goto(t, After(h), <<>>)
           \/ /\ H # NilHandler /\ ~LevelPass(frame[t].level, H.Level)
              /\ Goto(t, After(h), <<>>)
           \/ /\ H # NilHandler /\ LevelPass(frame[t].level, H.Level)
              /\ H.Filter = Nil
              /\ Goto(t, IF FilterPass(Nil, frame[t].own) THEN WritePc(h) ELSE After(h), <<>>)
           \/ /\ H # NilHandler /\ LevelPass(frame[t].level, H.Level)
              /\ H.Filter # Nil
              /\ \E r \in Readable(t) :
                   Goto(t, IF FilterPass(H.Filter, r) THEN WritePc(h) ELSE After(h),
                        <<Ev("filter", t, h, r, FilterAllows(H.Filter, r), NoBytes)>>)

\* H.Write([]byte(H.Formatter.GetMessage(l)))
Write(t, h) ==
    /\ pc[t] = WritePc(h)
    /\ UNCHANGED <<logger, ctor, Record, frame>>
    /\ \E r \in Readable(t), ok \in WriteOutcomes :
         Goto(t, AfterWrite(h, ok),
              <<Ev("write", t, h, r, ok, GetMessage(HandlerOf(h).Formatter, r))>>)

StreamGate(t) == Gate(t, "stream")
StreamWrite(t) == Write(t, "stream")
FileGate(t) == Gate(t, "file")
FileWrite(t) == Write(t, "file")

(* ------------------------ the public operations ------------------------ *)

LogDEBUG(t) == \E msg \in Msgs : log(t, DEBUG, msg)
LogINFO(t) == \E msg \in Msgs : log(t, INFO, msg)
LogWARNING(t) == \E msg \in Msgs : log(t, WARNING, msg)
LogERROR(t) == \E msg \in Msgs : log(t, ERROR, msg)
LogCRITICAL(t) == \E msg \in Msgs : log(t, CRITICAL, msg)

(* --------------------------- specifications ---------------------------- *)

\* A Logger is either the one GetDefaultLogger returns or one the caller
\* builds as a struct literal; no call has been made on it.
InitLogger(callers, configs) ==
    /\ \/ ctor = "default" /\ logger = GetDefaultLogger
       \/ ctor = "literal" /\ logger \in configs
    /\ Record = NilRecord
    /\ pc = [t \in callers |-> "idle"]
    /\ frame = [t \in callers |-> [call |-> 0, level |-> NOTSET, msg |-> Nil, own |-> NilRecord]]
    /\ trace = [t \in callers |-> <<>>]

Init == InitLogger(SeqCallers, LoggerConfigs)

InitConc == InitLogger(ConcCallers, ConcLoggerConfigs)

Next ==
    \/ \E t \in DOMAIN pc : LogDEBUG(t)
    \/ \E t \in DOMAIN pc : LogINFO(t)
    \/ \E t \in DOMAIN pc : LogWARNING(t)
    \/ \E t \in DOMAIN pc : LogERROR(t)
    \/ \E t \in DOMAIN pc : LogCRITICAL(t)
    \/ \E t \in DOMAIN pc : logFilter(t)
    \/ \E t \in DOMAIN pc : StreamGate(t)
    \/ \E t \in DOMAIN pc : StreamWrite(t)
    \/ \E t \in DOMAIN pc : FileGate(t)
    \/ \E t \in DOMAIN pc : FileWrite(t)

Spec == Init /\ [][Next]_vars

SpecConc == InitConc /\ [][Next]_vars

\* A step of goroutine t inside Logger.log.
Step(t) ==
    logFilter(t) \/ StreamGate(t) \/ StreamWrite(t) \/ FileGate(t) \/ FileWrite(t)

(* ------------------------ reading the history -------------------------- *)

Callers == DOMAIN trace

Pos(t) == 1..Len(trace[t])

Handlers == {"stream", "file"}

OtherHandler(h) == IF h = "stream" THEN "file" ELSE "stream"

\* The calls that have returned: the positions in trace[t] of their "ret"
\* events, which carry the call's number, level and message.
ReturnedCalls(t) == {i \in Pos(t) : trace[t][i].k = "ret"}

\* The calls of the history of a caller that is idle (between two calls, or
\* after the last): the state "after a sequence of log calls".
CallsDone(t) == IF pc[t] = "idle" THEN ReturnedCalls(t) ELSE {}

\* The positions in trace[t] of the events of kind k of call c about h.
EventsOf(t, c, k, h) ==
    {i \in Pos(t) : trace[t][i].c = c /\ trace[t][i].k = k /\ trace[t][i].h = h}

\* The number of writes handler h received during call c of goroutine t.
NWrites(t, c, h) == Cardinality(EventsOf(t, c, "write", h))

\* The Record that the call of event e is to build: its level and message.
OwnRecord(e) == [id |-> e.c, Level |-> e.L, Message |-> e.m]

\* Filter f is absent, or it returns true on Record r.
AbsentOrTrue(f, r) == f = Nil \/ FilterAllows(f, r)

\* The four gates of the call of event e for the attached handler h.
Eligible(e, h) ==
    /\ HandlerOf(h) # NilHandler
    /\ e.L >= logger.Level
    /\ e.L >= HandlerOf(h).Level
    /\ AbsentOrTrue(logger.Filter, OwnRecord(e))
    /\ AbsentOrTrue(HandlerOf(h).Filter, OwnRecord(e))

(* ------------------------------- claims -------------------------------- *)

\* C1: in sequential use, every write a handler H received was made by a
\* call at a level L with L >= Logger.Level and L >= H.Level, for which the
\* Logger-level Filter is absent or returned true and H's Filter is absent
\* or returned true (earlier in the same call).
C1_WriteOnlyThroughFourGates ==
    \A t \in Callers : \A i \in Pos(t) :
        LET e == trace[t][i]
            H == HandlerOf(e.h)
        IN  e.k = "write" =>
              /\ H # NilHandler
              /\ e.L >= logger.Level
              /\ e.L >= H.Level
              /\ \/ logger.Filter = Nil
                 \/ \E j \in 1..(i - 1) :
                      /\ trace[t][j].k = "filter" /\ trace[t][j].c = e.c
                      /\ trace[t][j].h = "logger" /\ trace[t][j].ok
              /\ \/ H.Filter = Nil
                 \/ \E j \in 1..(i - 1) :
                      /\ trace[t][j].k = "filter" /\ trace[t][j].c = e.c
                      /\ trace[t][j].h = e.h /\ trace[t][j].ok

\* A handler with a threshold above DEBUG and a Filter, on a Logger with a
\* threshold above DEBUG and a Filter, has received a write, after an
\* earlier call was suppressed.
C1_Witness ==
    /\ logger.Level = INFO /\ logger.Filter = FilterSevere
    /\ logger.FileHandler # NilHandler
    /\ logger.FileHandler.Level = WARNING /\ logger.FileHandler.Filter = FilterSevere
    /\ \E t \in Callers : \E i \in ReturnedCalls(t), j \in ReturnedCalls(t) :
          /\ i < j
          /\ NWrites(t, trace[t][i].c, "file") = 0
          /\ NWrites(t, trace[t][j].c, "file") = 1

\* C2 (state part): a call at a level below Logger.Level has no event but
\* its start and its return: no Record built, no Filter evaluated, no write.
C2_GatedCallHasNoEvents ==
    \A t \in Callers : \A i \in Pos(t) :
        (trace[t][i].k = "call" /\ trace[t][i].L < logger.Level) =>
            /\ i + 1 \in Pos(t)
            /\ trace[t][i + 1].k = "ret" /\ trace[t][i + 1].c = trace[t][i].c
            /\ \A j \in Pos(t) : trace[t][j].c = trace[t][i].c => j \in {i, i + 1}

\* C2 (step part): the step that starts a call at a level below Logger.Level
\* also returns from it, and leaves Logger.Record and the position unchanged.
C2_GatedCallStep ==
    \A t \in Callers :
        \A i \in (Len(trace[t]) + 1)..Len(trace'[t]) :
            (trace'[t][i].k = "call" /\ trace'[t][i].L < logger.Level) =>
                /\ Record' = Record
                /\ pc'[t] = "idle"
                /\ Len(trace'[t]) = i + 1

\* C2: for every log call at a level L < Logger.Level, the call returns
\* without building a Record (Logger.Record is unchanged), without
\* evaluating any Filter and without any write to either handler.
C2_BelowLoggerLevelIsNoOp == []C2_GatedCallHasNoEvents /\ [][C2_GatedCallStep]_vars

\* A call below Logger.Level returned after an earlier call had built a
\* Record, which is still the Logger's Record.
C2_Witness ==
    \E t \in Callers : \E i \in ReturnedCalls(t), j \in ReturnedCalls(t) :
        /\ i < j
        /\ trace[t][i].L >= logger.Level
        /\ trace[t][j].L < logger.Level
        /\ Record = OwnRecord(trace[t][i])
        /\ pc[t] = "idle"

\* C3: with no Filters configured, after any sequence of calls, a call at
\* level L gave an
\* attached handler H exactly one write if L >= Logger.Level and
\* L >= H.Level, and no write otherwise, whatever the other handler's level;
\* with Logger.Level=INFO, Stream at DEBUG and File at WARNING, an INFO call
\* wrote to Stream only, an ERROR call to both, a DEBUG call to neither.
C3_HandlerLevelsIndependent ==
    (logger.Filter = Nil /\ logger.StreamHandler.Filter = Nil /\ logger.FileHandler.Filter = Nil) =>
    \A t \in Callers : \A i \in CallsDone(t) :
        LET e == trace[t][i]
            ns == NWrites(t, e.c, "stream")
            nf == NWrites(t, e.c, "file")
        IN  /\ \A h \in Handlers :
                 HandlerOf(h) # NilHandler =>
                   NWrites(t, e.c, h) =
                     IF e.L >= logger.Level /\ e.L >= HandlerOf(h).Level THEN 1 ELSE 0
            /\ ( /\ logger.Level = INFO
                 /\ logger.StreamHandler # NilHandler /\ logger.StreamHandler.Level = DEBUG
                 /\ logger.FileHandler # NilHandler /\ logger.FileHandler.Level = WARNING ) =>
                   /\ e.L = INFO => (ns = 1 /\ nf = 0)
                   /\ e.L = ERROR => (ns = 1 /\ nf = 1)
                   /\ e.L = DEBUG => (ns = 0 /\ nf = 0)

\* Logger at INFO, Stream at DEBUG, File at WARNING, no Filters: an INFO
\* call has written to Stream only and an ERROR call to both.
C3_Witness ==
    /\ logger.Filter = Nil /\ logger.Level = INFO
    /\ logger.StreamHandler # NilHandler /\ logger.FileHandler # NilHandler
    /\ logger.StreamHandler.Filter = Nil /\ logger.StreamHandler.Level = DEBUG
    /\ logger.FileHandler.Filter = Nil /\ logger.FileHandler.Level = WARNING
    /\ \E t \in Callers : \E i \in ReturnedCalls(t), j \in ReturnedCalls(t) :
          /\ trace[t][i].L = INFO
          /\ NWrites(t, trace[t][i].c, "stream") = 1 /\ NWrites(t, trace[t][i].c, "file") = 0
          /\ trace[t][j].L = ERROR
          /\ NWrites(t, trace[t][j].c, "stream") = 1 /\ NWrites(t, trace[t][j].c, "file") = 1

\* C4: after any sequence of calls, for a call that passed the Logger level
\* gate: if the
\* Logger-level Filter is present and false on the call's Record, no handler
\* received a write; if the Logger-level Filter passes and handler H's
\* Filter is present and false, H received no write and the other handler,
\* if attached, received one write exactly when its own level and Filter
\* gates pass.
C4_FilterSuppression ==
    \A t \in Callers : \A i \in CallsDone(t) :
        LET e == trace[t][i]
            r == OwnRecord(e)
        IN  e.L >= logger.Level =>
              /\ (logger.Filter # Nil /\ ~FilterAllows(logger.Filter, r)) =>
                    \A h \in Handlers : NWrites(t, e.c, h) = 0
              /\ AbsentOrTrue(logger.Filter, r) =>
                    \A h \in Handlers :
                      LET H == HandlerOf(h)
                          G == HandlerOf(OtherHandler(h))
                      IN  (H # NilHandler /\ H.Filter # Nil /\ ~FilterAllows(H.Filter, r)) =>
                            /\ NWrites(t, e.c, h) = 0
                            /\ G # NilHandler =>
                                 NWrites(t, e.c, OtherHandler(h)) =
                                   IF e.L >= G.Level /\ AbsentOrTrue(G.Filter, r) THEN 1 ELSE 0

\* One call was suppressed for both handlers by the Logger-level Filter;
\* another passed it, was suppressed for Stream by Stream's Filter (its
\* level gate passing) and written to File.
C4_Witness ==
    /\ logger.Filter = FilterSevere
    /\ logger.StreamHandler # NilHandler /\ logger.StreamHandler.Filter = FilterDeny
    /\ logger.FileHandler # NilHandler
    /\ \E t \in Callers : \E i \in ReturnedCalls(t), j \in ReturnedCalls(t) :
          /\ trace[t][i].L >= logger.Level
          /\ trace[t][i].L >= logger.StreamHandler.Level
          /\ trace[t][i].L >= logger.FileHandler.Level
          /\ EventsOf(t, trace[t][i].c, "filter", "logger") # {}
          /\ \A h \in Handlers : NWrites(t, trace[t][i].c, h) = 0
          /\ EventsOf(t, trace[t][j].c, "filter", "stream") # {}
          /\ NWrites(t, trace[t][j].c, "stream") = 0
          /\ NWrites(t, trace[t][j].c, "file") = 1

\* C5: a failed write does not stop dispatch: after a failed Stream write
\* the call is at the File handler (its gate or its write); in a returned call with a failed write
\* on one handler the other handler, if eligible by its level and Filter,
\* received a write of the same Record; the caller is idle only after a
\* return; and every call started after a failed write gave each
\* attached handler one write exactly when the four gates pass.
C5_WriteFailureIsolated ==
    \A t \in Callers :
        LET failed == {i \in Pos(t) : trace[t][i].k = "write" /\ ~trace[t][i].ok}
            returned == ReturnedCalls(t)
        IN  /\ pc[t] \in {"idle", "filter", "stream", "streamWrite", "file", "fileWrite"}
            /\ pc[t] = "idle" => (trace[t] = <<>> \/ Len(trace[t]) \in returned)
            /\ \A i \in failed :
                  LET e == trace[t][i]
                      g == OtherHandler(e.h)
                  IN  /\ i = Len(trace[t]) => (e.h = "stream" /\ pc[t] \in {"file", "fileWrite"})
                      /\ (Eligible(e, g) /\ \E j \in returned : trace[t][j].c = e.c) =>
                            \E j \in EventsOf(t, e.c, "write", g) : trace[t][j].rec = e.rec
            /\ \A j \in CallsDone(t) :
                  (\E i \in failed : i < j /\ trace[t][i].c # trace[t][j].c) =>
                      \A h \in Handlers :
                          HandlerOf(h) # NilHandler =>
                              NWrites(t, trace[t][j].c, h) = IF Eligible(trace[t][j], h) THEN 1 ELSE 0

\* A Stream write failed, the File handler wrote the same Record in the
\* same call, the call returned, and the next call wrote to Stream.
C5_Witness ==
    \E t \in Callers : \E i \in Pos(t), j \in Pos(t), k \in ReturnedCalls(t) :
        /\ trace[t][i].k = "write" /\ trace[t][i].h = "stream" /\ ~trace[t][i].ok
        /\ trace[t][j].k = "write" /\ trace[t][j].h = "file" /\ trace[t][j].ok
        /\ trace[t][j].c = trace[t][i].c /\ trace[t][j].rec = trace[t][i].rec
        /\ i < j /\ j < k /\ trace[t][k].c # trace[t][i].c
        /\ NWrites(t, trace[t][k].c, "stream") = 1
        /\ pc[t] = "idle"

C7_DefaultLoggerWritesOncePerCall ==
    ctor = "default" =>
        /\ logger.Level = DEBUG /\ logger.Filter = Nil
        /\ logger.StreamHandler # NilHandler
        /\ logger.StreamHandler.Level = DEBUG /\ logger.StreamHandler.Filter = Nil
        /\ logger.StreamHandler.Destination = "os.Stdout"
        /\ logger.FileHandler = NilHandler
        /\ \A t \in Callers : \A i \in CallsDone(t) :
              /\ NWrites(t, trace[t][i].c, "stream") = 1
              /\ NWrites(t, trace[t][i].c, "file") = 0

\* On the default Logger a DEBUG call and a CRITICAL call have returned,
\* each after one write to Stream.
C7_Witness ==
    /\ ctor = "default"
    /\ \E t \in Callers : \E i \in ReturnedCalls(t), j \in ReturnedCalls(t) :
          /\ trace[t][i].L = DEBUG /\ trace[t][j].L = CRITICAL
          /\ NWrites(t, trace[t][i].c, "stream") = 1
          /\ NWrites(t, trace[t][j].c, "stream") = 1
          /\ pc[t] = "idle"

\* C8: with two goroutines calling one Logger: whenever a call is about to
\* evaluate the Logger-level Filter or to write to Stream and the other
\* goroutine has built a Record, the step can read that other Record; and
\* every Record a Filter or a write has read is the call's own or one the
\* other goroutine built.
C8_SharedRecordRace ==
    \A t \in Callers :
        /\ \A r \in OthersBuilt(t) :
              /\ (pc[t] = "filter" /\ logger.Filter # Nil) =>
                    ENABLED (logFilter(t) /\ trace'[t][Len(trace[t]) + 1].rec = r)
              /\ pc[t] = "streamWrite" =>
                    ENABLED (StreamWrite(t) /\ trace'[t][Len(trace[t]) + 1].rec = r)
        /\ \A i \in Pos(t) :
              LET e == trace[t][i]
              IN  e.k \in {"filter", "write"} =>
                    \/ e.rec = OwnRecord(e)
                    \/ /\ e.rec.id[1] \in Callers \ {t}
                       /\ \E j \in Pos(e.rec.id[1]) :
                            /\ trace[e.rec.id[1]][j].k = "build"
                            /\ trace[e.rec.id[1]][j].rec = e.rec

\* Two calls at different levels, one per goroutine, returned after one
\* successful write to Stream each, and both writes rendered the same
\* Record: one message was emitted twice and the other not at all.
C8_Witness ==
    /\ Callers = ConcCallers
    /\ \A t \in Callers : pc[t] = "idle" /\ frame[t].call = 1
    /\ \E i \in Pos(1), j \in Pos(2) :
          /\ trace[1][i].k = "write" /\ trace[1][i].h = "stream" /\ trace[1][i].ok
          /\ trace[2][j].k = "write" /\ trace[2][j].h = "stream" /\ trace[2][j].ok
          /\ trace[1][i].rec = trace[2][j].rec
          /\ trace[1][i].out = trace[2][j].out
          /\ trace[1][i].L # trace[2][j].L

\* The place of an event in the order of one call: the call's start, its
\* Record and its Logger-level Filter, then Stream, then File, then return.
Stage(e) ==
    CASE e.k = "ret" -> 3
      [] e.h = "file" -> 2
      [] e.h = "stream" -> 1
      [] OTHER -> 0

\* C9: in sequential use, consecutive events of one call go from Stream to
\* File and never back, and nothing follows the call's return; an event of
\* another call follows only a return and is that call's start (so every
\* write of a call precedes its return and every event of the next call);
\* and when the caller is idle the last event is a return.
C9_SynchronousFixedOrder ==
    \A t \in Callers :
        /\ pc[t] = "idle" => (trace[t] = <<>> \/ trace[t][Len(trace[t])].k = "ret")
        /\ \A i \in Pos(t) :
              LET a == trace[t][i]
              IN  /\ a.k = "write" => a.h \in Handlers
                  /\ i = 1 => a.k = "call"
                  /\ i > 1 =>
                        LET b == trace[t][i - 1]
                        IN  /\ a.c = b.c => (Stage(b) <= Stage(a) /\ b.k # "ret")
                            /\ a.c # b.c => (b.k = "ret" /\ a.k = "call")
                            /\ a.k = "call" => a.c # b.c

\* Two calls have returned, each after a Stream write followed by a File
\* write.
C9_Witness ==
    \E t \in Callers : \E i \in ReturnedCalls(t), j \in ReturnedCalls(t) :
        /\ i < j
        /\ \A k \in {i, j} :
              \E s \in EventsOf(t, trace[t][k].c, "write", "stream"),
                 f \in EventsOf(t, trace[t][k].c, "write", "file") : s < f

\* The position at or before i of the latest call at a level
\* >= Logger.Level, 0 if there is none.
RECURSIVE LastBuilding(_, _)
LastBuilding(t, i) ==
    IF i = 0 THEN 0
    ELSE IF trace[t][i].k = "call" /\ trace[t][i].L >= logger.Level THEN i
    ELSE LastBuilding(t, i - 1)

\* C10: in sequential use, a call builds one Record, right at its start, if
\* its level is >= Logger.Level and none otherwise; Logger.Record is the
\* Record (level and message) of the most recent call at a level
\* >= Logger.Level, nil if there is none; and every Filter evaluation and
\* every write of a call read that call's own Record.
C10_RecordReplacedPerCall ==
    \A t \in Callers :
        /\ \A i \in Pos(t) :
              LET e == trace[t][i]
              IN  /\ e.k = "call" =>
                        /\ i + 1 \in Pos(t)
                        /\ trace[t][i + 1].c = e.c
                        /\ trace[t][i + 1].k = IF e.L >= logger.Level THEN "build" ELSE "ret"
                  /\ e.k = "build" =>
                        /\ e.rec = OwnRecord(e)
                        /\ i > 1 /\ trace[t][i - 1].k = "call" /\ trace[t][i - 1].c = e.c
                  /\ e.k \in {"filter", "write"} => e.rec = OwnRecord(e)
        /\ LET last == LastBuilding(t, Len(trace[t]))
           IN  Record = IF last = 0 THEN NilRecord ELSE OwnRecord(trace[t][last])

\* A first call wrote to a handler; a second call passed the Logger level
\* gate, was suppressed (no write), and Logger.Record is the second call's
\* Record.
C10_Witness ==
    \E t \in Callers : \E i \in ReturnedCalls(t), j \in ReturnedCalls(t) :
        /\ i < j
        /\ \E h \in Handlers : NWrites(t, trace[t][i].c, h) = 1
        /\ trace[t][j].L >= logger.Level
        /\ \A h \in Handlers : NWrites(t, trace[t][j].c, h) = 0
        /\ Record = OwnRecord(trace[t][j])
        /\ Record # OwnRecord(trace[t][i])

====
